---- MODULE Spec2Model ----
(***************************************************************************)
(* CloudLeecher web client: the task list kept by AppProvider              *)
(* (frontend/src/context/AppContext.jsx), the ignoredTaskIds blacklist,    *)
(* the add / remove / pause / resume / clearHistory handlers and the merge *)
(* of a polled /api/status snapshot (updateTasksFromBackend).              *)
(*                                                                         *)
(* Identifiers (gid) are sequences of digits so that String.startsWith is  *)
(* a real prefix test.  Display names are sequences of tokens so that the  *)
(* '[Lost] ', '[Finalizing] ' and '[Server Removed] ' prefixes are real    *)
(* concatenations.  Time is in milliseconds.                               *)
(***************************************************************************)
EXTENDS Integers, Sequences, FiniteSets, TLC

\* ---------------------------------------------------------------- bounds
MaxTasks == 2
MaxSnap == 2
MaxClock == 1
MaxInFlight == 2
MaxSteps == 5

\* ------------------------------------------------------ program constants
GraceMs == 60000
TickMs == GraceMs

\* ------------------------------------------------------------------ data
G1 == <<1>>
G1x == <<1, 7>>
G2 == <<2>>
GIDS == {G1, G1x, G2}

NoName == << >>
ResolvingName == <<"Resolving metadata...">>
UploadingName == <<"Uploading torrent file...">>
UnknownFile == <<"Unknown File">>
UnknownTask == <<"Unknown Task">>
LostTag == "[Lost]"
FinalizingTag == "[Finalizing]"
ServerRemovedTag == "[Server Removed]"
NameA == <<"a.mkv">>

NoHash == ""
NoErr == ""
NaNV == -1
\* The content every add of the model asks for; the engine reports it as
\* infoHash on the tasks it creates for that content.
ContentHash == "h1"

\* One entry of the /api/status listing.  fname is the base name of
\* files[0].path (NoName when files is missing or the path is empty).
Entry(g, st, fn, ih, tot, comp, spd) ==
    [gid |-> g, status |-> st, fname |-> fn, infoHash |-> ih,
     totalLength |-> tot, completedLength |-> comp, downloadSpeed |-> spd,
     numSeeders |-> IF st = "active" THEN 1 ELSE NaNV,
     connections |-> IF st = "active" THEN 2 ELSE NaNV,
     errorCode |-> IF st = "error" THEN "1" ELSE NoErr,
     errorMessage |-> IF st = "error" THEN "failed" ELSE NoErr]

\* The entries the backend is observed to report in the model.
Entries ==
    { Entry(G1,  "active",    NoName,        "h1",   NaNV, NaNV, NaNV),
      Entry(G2,  "active",    NameA,         "h1",   2,    1,    1),
      Entry(G2,  "uploading", NameA,         "h1",   2,    2,    0),
      Entry(G2,  "saved",     NameA,         "h1",   2,    2,    0),
      Entry(G1x, "paused",    NameA,         NoHash, 2,    1,    0),
      Entry(G1x, "waiting",   ResolvingName, NoHash, 2,    0,    0) }

\* backendData: the concatenation [...active, ...waiting, ...stopped].
RECURSIVE SeqsUpTo(_, _)
SeqsUpTo(S, n) ==
    IF n = 0 THEN { << >> }
    ELSE LET shorter == SeqsUpTo(S, n - 1)
         IN  shorter \cup { Append(s, e) : s \in { q \in shorter : Len(q) = n - 1 }, e \in S }

\* The listing names each gid once (the three lists are disjoint), and the
\* backend runs one download at a time: at most one entry is active or
\* waiting.
Snapshots ==
    { s \in SeqsUpTo(Entries, MaxSnap) :
        /\ \A a, b \in DOMAIN s : a # b => s[a].gid # s[b].gid
        /\ Cardinality({ a \in DOMAIN s : s[a].status \in {"active", "waiting"} }) <= 1 }

\* ------------------------------------------------------------ JS helpers
\* String.prototype.startsWith on gids
StartsWith(s, p) ==
    /\ Len(p) <= Len(s)
    /\ \A k \in 1..Len(p) : s[k] = p[k]

\* name.startsWith('[tag]')
NameStartsWith(nm, tag) == Len(nm) > 0 /\ nm[1] = tag

\* name.replace('[Finalizing] ', ''): drops the first occurrence only
RECURSIVE ReplaceFirst(_, _)
ReplaceFirst(nm, tag) ==
    IF nm = << >> THEN << >>
    ELSE IF Head(nm) = tag THEN Tail(nm)
    ELSE <<Head(nm)>> \o ReplaceFirst(Tail(nm), tag)

\* parseInt(x) || 0
ParseIntOr0(x) == IF x = NaNV THEN 0 ELSE x

\* (parseInt(c) / parseInt(t)) * 100 || 0
Progress(c, t) ==
    IF c = NaNV \/ t = NaNV \/ t = 0 THEN 0 ELSE (c * 100) \div t

\* new Map(); forEach(t => map.set(t.gid, t)): a key keeps the position of
\* its first insertion and the value of its last.
RECURSIVE BackendTasksMap(_)
BackendTasksMap(all) ==
    IF all = << >> THEN << >>
    ELSE LET init == BackendTasksMap(SubSeq(all, 1, Len(all) - 1))
             t == all[Len(all)]
         IN  IF \E k \in DOMAIN init : init[k].gid = t.gid
             THEN [k \in DOMAIN init |-> IF init[k].gid = t.gid THEN t ELSE init[k]]
             ELSE Append(init, t)

MapHas(m, g) == \E k \in DOMAIN m : m[k].gid = g
MapGet(m, g) == m[CHOOSE k \in DOMAIN m : m[k].gid = g]
\* A Map whose delete() forgets nothing.
MapDeleteNoop(m, g) == m

MapDelete(m, g) == SelectSeq(m, LAMBDA e : e.gid # g)

\* ------------------------------------------- updateTasksFromBackend parts
\* The three signals of the follow-up search.
SameName(bTask, localTask) == bTask.fname = localTask.name
SameInfoHash(bTask, localTask) ==
    bTask.infoHash # NoHash /\ bTask.infoHash = localTask.infoHash
GidPrefix(newGid, localTask) == StartsWith(newGid, localTask.gid)

\* The follow-up condition without its two placeholder-name exclusions.
IsFollowUpNoGuard(bTask, localTask) ==
    \/ GidPrefix(bTask.gid, localTask)
    \/ SameInfoHash(bTask, localTask)
    \/ SameName(bTask, localTask)

\* The condition of the `if` inside the follow-up loop.
IsFollowUp(bTask, localTask) ==
    \/ GidPrefix(bTask.gid, localTask)
    \/ SameInfoHash(bTask, localTask)
    \/ /\ SameName(bTask, localTask)
       /\ localTask.name # UploadingName
       /\ localTask.name # ResolvingName

\* Which of the three signals an entry shows for a local task (the
\* "GID TRANSITION DETECTED" message, spelled out).
Signals(bTask, localTask) ==
    (IF GidPrefix(bTask.gid, localTask) THEN {"prefix"} ELSE {}) \cup
    (IF SameInfoHash(bTask, localTask) THEN {"hash"} ELSE {}) \cup
    (IF SameName(bTask, localTask) THEN {"name"} ELSE {})

\* The loop over backendTasksMap.entries() with its `break`: the position of
\* the first entry, in Map order, that satisfies the condition (0: none).
FindFollowUp(map, localTask) ==
    LET hits == { k \in DOMAIN map : IsFollowUp(map[k], localTask) }
    IN  IF hits = {} THEN 0 ELSE CHOOSE k \in hits : \A j \in hits : k <= j

\* A kill list that leaves the task as it is.
IgnoredTaskKept(localTask) == localTask

\* Task on the kill list: forced to 'removed'.
IgnoredTask(localTask) == [localTask EXCEPT !.status = "removed", !.speed = 0]

\* "Update existing": the gid is in the Map.
UpdatedTask(localTask, backendTask, nowMs) ==
    LET base == IF backendTask.fname # NoName THEN backendTask.fname
                ELSE IF localTask.name # NoName THEN localTask.name
                ELSE UnknownFile
        name1 == IF backendTask.status = "uploading"
                 THEN <<FinalizingTag>> \o ReplaceFirst(base, FinalizingTag)
                 ELSE base
        name2 == IF backendTask.status = "removed" /\ ~NameStartsWith(name1, ServerRemovedTag)
                 THEN <<ServerRemovedTag>> \o name1
                 ELSE name1
        newStatus == IF backendTask.status = "removed" THEN "error" ELSE backendTask.status
    IN  [localTask EXCEPT
            !.name = name2,
            !.size = ParseIntOr0(backendTask.totalLength),
            !.completed = ParseIntOr0(backendTask.completedLength),
            !.speed = ParseIntOr0(backendTask.downloadSpeed),
            !.status = newStatus,
            !.progress = Progress(backendTask.completedLength, backendTask.totalLength),
            !.errorMessage = backendTask.errorMessage,
            !.errorCode = backendTask.errorCode,
            !.seeds = ParseIntOr0(backendTask.numSeeders),
            !.peers = ParseIntOr0(backendTask.connections),
            !.infoHash = backendTask.infoHash,
            !.timestamp = nowMs]

\* An adoption that takes the entry's gid and leaves the time stamp alone.
AdoptedTaskKeepTime(localTask, bTask, nowMs) ==
    [localTask EXCEPT !.gid = bTask.gid, !.status = bTask.status]

\* "GID TRANSITION DETECTED": the task takes the follow-up entry's gid.
AdoptedTask(localTask, bTask, nowMs) ==
    [localTask EXCEPT
        !.gid = bTask.gid,
        !.name = IF bTask.fname # NoName THEN bTask.fname ELSE localTask.name,
        !.size = ParseIntOr0(bTask.totalLength),
        !.completed = ParseIntOr0(bTask.completedLength),
        !.speed = ParseIntOr0(bTask.downloadSpeed),
        !.status = bTask.status,
        !.progress = Progress(bTask.completedLength, bTask.totalLength),
        !.errorMessage = bTask.errorMessage,
        !.errorCode = bTask.errorCode,
        !.seeds = ParseIntOr0(bTask.numSeeders),
        !.peers = ParseIntOr0(bTask.connections),
        !.infoHash = bTask.infoHash,
        !.timestamp = nowMs]

\* A grace test that nothing passes.
IsYoungNever(localTask, nowMs) == FALSE

\* "Truly missing": 60 s of grace for an active task, else marked lost.
IsYoung(localTask, nowMs) == (nowMs - localTask.timestamp) < GraceMs

\* A missing task that is left without mark.
LostTaskUnmarked(localTask) == localTask

\* A lost marking without the startsWith('[Lost]') test.
LostTaskPrefixedAgain(localTask) ==
    [localTask EXCEPT
        !.status = "error",
        !.name = <<LostTag>> \o localTask.name,
        !.speed = 0]

LostTask(localTask) ==
    [localTask EXCEPT
        !.status = "error",
        !.name = IF NameStartsWith(localTask.name, LostTag)
                 THEN localTask.name ELSE <<LostTag>> \o localTask.name,
        !.speed = 0]

\* "Add NEW tasks": the record unshifted for an unclaimed entry.
NewTask(bTask, nowMs) ==
    [gid |-> bTask.gid,
     name |-> IF bTask.fname # NoName THEN bTask.fname ELSE UnknownTask,
     size |-> ParseIntOr0(bTask.totalLength),
     completed |-> ParseIntOr0(bTask.completedLength),
     speed |-> ParseIntOr0(bTask.downloadSpeed),
     status |-> bTask.status,
     progress |-> Progress(bTask.completedLength, bTask.totalLength),
     errorMessage |-> NoErr, errorCode |-> NoErr,
     seeds |-> NaNV, peers |-> NaNV, infoHash |-> NoHash,
     timestamp |-> nowMs]

\* One line of the merge's trace (the console messages of the loop): what
\* happened to the local task `from`, the gid it holds afterwards, and the
\* entries that were still in the Map when the task was examined.
LogLine(kind, localTask, newGid, map) ==
    [kind |-> kind, from |-> localTask, to |-> newGid, cands |-> map]

\* The `for` loop over newTasks inside the setTasks updater.
RECURSIVE MergeLoop(_, _, _, _, _, _)
MergeLoop(i, newTasks, map, ign, nowMs, log) ==
    IF i > Len(newTasks)
    THEN [tasks |-> newTasks, map |-> map, log |-> log]
    ELSE
      LET localTask == newTasks[i] IN
      IF localTask.gid \in ign
      THEN MergeLoop(i + 1, [newTasks EXCEPT ![i] = IgnoredTask(localTask)],
                     map, ign, nowMs,
                     Append(log, LogLine("ignored", localTask, localTask.gid, map)))
      ELSE IF MapHas(map, localTask.gid)
      THEN MergeLoop(i + 1,
                     [newTasks EXCEPT ![i] = UpdatedTask(localTask, MapGet(map, localTask.gid), nowMs)],
                     MapDelete(map, localTask.gid), ign, nowMs,
                     Append(log, LogLine("update", localTask, localTask.gid, map)))
      ELSE
        LET k == FindFollowUp(map, localTask) IN
        IF k # 0
        THEN MergeLoop(i + 1,
                       [newTasks EXCEPT ![i] = AdoptedTask(localTask, map[k], nowMs)],
                       MapDelete(map, map[k].gid), ign, nowMs,
                       Append(log, LogLine("transition", localTask, map[k].gid, map)))
        ELSE IF IsYoung(localTask, nowMs) /\ localTask.status = "active"
        THEN MergeLoop(i + 1, newTasks, map, ign, nowMs,
                       Append(log, LogLine("kept", localTask, localTask.gid, map)))
        ELSE IF localTask.status # "removed"
        THEN MergeLoop(i + 1, [newTasks EXCEPT ![i] = LostTask(localTask)],
                       map, ign, nowMs,
                       Append(log, LogLine("lost", localTask, localTask.gid, map)))
        ELSE MergeLoop(i + 1, newTasks, map, ign, nowMs,
                       Append(log, LogLine("gone", localTask, localTask.gid, map)))

\* A merge that discovers nothing.
AddNewTasksNone(newTasks, map, ign, nowMs) == newTasks

\* backendTasksMap.forEach(bTask => newTasks.unshift(...)) unless ignored.
RECURSIVE AddNewTasks(_, _, _, _)
AddNewTasks(newTasks, map, ign, nowMs) ==
    IF map = << >> THEN newTasks
    ELSE LET bTask == Head(map)
             next == IF bTask.gid \in ign THEN newTasks
                     ELSE <<NewTask(bTask, nowMs)>> \o newTasks
         IN  AddNewTasks(next, Tail(map), ign, nowMs)

\* A cleanup that empties the kill list.
PruneIgnoredAll(ign, map) == {}

\* CLEANUP of ignoredTaskIds: ids that are gone from the backend are dropped.
PruneIgnored(ign, map) == { g \in ign : MapHas(map, g) }

\* updateTasksFromBackend(backendData)
UpdateTasksFromBackend(currentTasks, ign, all, nowMs) ==
    LET map0 == BackendTasksMap(all)
        ign1 == PruneIgnored(ign, map0)
        Finish(r) == [tasks |-> AddNewTasks(r.tasks, r.map, ign1, nowMs),
                      ignored |-> ign1,
                      log |-> r.log,
                      unclaimed |-> r.map]
    IN  Finish(MergeLoop(1, currentTasks, map0, ign1, nowMs, << >>))

\* ----------------------------------------------------------------- state
VARIABLES
    tasks,        \* React state `tasks` (the value the setTasks updaters see)
    view,         \* what the handlers of the last render captured of `tasks`
    ignored,      \* ignoredTaskIds.current
    now,          \* wall clock, ms
    adds,         \* add requests awaiting their response
    issued,       \* gids the backend has returned from an add so far
    userRemoved,  \* gids passed to removeTask and still on the kill list,
                  \* with whether the task was being relocated at that time
                  \* and whether the gid had been removed before
    last,         \* the last handler that ran, with its trace
    steps,        \* handlers, renders and clock ticks so far
    net,          \* connection state of the provider and of services/api.js
    srv           \* the backend: engine registry, history table, removed ids

vars == <<tasks, view, ignored, now, adds, issued, userRemoved, last, steps, net, srv>>

\* The handlers read only gid and status from the `tasks` of their closure
\* (the busy check, tasksToRemove, the buttons of a task card).
Captured(ts) == { [gid |-> ts[i].gid, status |-> ts[i].status] : i \in DOMAIN ts }

Gids(ts) == { ts[i].gid : i \in DOMAIN ts }

Last(op, gid, outcome, snap, log) ==
    [op |-> op, gid |-> gid, outcome |-> outcome, snap |-> snap, log |-> log]

NoGid == << >>

\* The runs examined are those of at most MaxSteps steps.
Bump == steps < MaxSteps /\ steps' = steps + 1

\* ------------------------------------------------- connection state
\* Values of the settings form.
NoUrl == ""
NoKey == ""
Urls == {NoUrl, "u1"}
Keys == {NoKey, "k1"}

\* useState({ total: 0, free: 0, used: 0 }) and useState([])
DriveZero == [total |-> 0, free |-> 0, used |-> 0]
NoLogs == << >>

NoPoll == [status |-> "", drive |-> "", logs |-> ""]

\* The trace of the last connection handler.
NetLast(op, health, poll, report) ==
    [op |-> op, health |-> health, poll |-> poll, report |-> report]

NetInit ==
    [ apiUrl |-> NoUrl,           \* useState(localStorage CL_API_URL || '')
      apiKey |-> NoKey,           \* useState(localStorage CL_API_KEY || '')
      currentApiKey |-> NoKey,    \* api.js: let currentApiKey = ''
      isConnected |-> FALSE,
      lock |-> FALSE,             \* interactionInProgress.current
      i |-> 0,                    \* loop variable of the running checkConnection
      closure |-> FALSE,          \* the isConnected that checkConnection captured
      healthSent |-> 0,           \* health requests of the current or last check
      delays |-> << >>,           \* the waits of the current or last check, ms
      polls |-> {},               \* refreshStatus calls awaiting their responses
      nextId |-> 1,
      lastMerged |-> 0,           \* the poll whose snapshot was merged last
      driveInfo |-> DriveZero,
      logs |-> NoLogs,
      last |-> NetLast("init", "", NoPoll, ""),
      n |-> 0 ]                   \* connection steps so far

\* Identifiers the engine hands out.
SrvGids == {<<1>>, <<2>>}

SrvInit ==
    [ engine |-> [g \in SrvGids |-> "none"],  \* the engine's registry
      moving |-> {},       \* tasks the Relocation Pipeline is moving
      history |-> {},      \* identifiers of the History Entries
      removed |-> {},      \* identifiers the backend knows as removed
      staging |-> {},      \* identifiers whose content is in staging
      durable |-> {},      \* entries of durable storage: name and content
      attempts |-> [g \in SrvGids |-> 0],  \* failed moves of the relocation
      failed |-> {},       \* tasks whose relocation ended in phase error
      served |-> {},       \* the last snapshot of the Status Aggregator
      last |-> "init",
      n |-> 0 ]            \* backend steps so far

Init ==
    /\ tasks = << >>
    /\ view = Captured(<< >>)
    /\ ignored = {}
    /\ now = 0
    /\ adds = << >>
    /\ issued = {}
    /\ userRemoved = {}
    /\ last = Last("init", NoGid, "", << >>, << >>)
    /\ steps = 0
    /\ net = NetInit
    /\ srv = SrvInit

\* ------------------------------------------------------- add (two halves)
\* The busy check of the earlier version: a task being relocated is not busy.
HasActiveDownloadNotUploading(captured) ==
    \E t \in captured : t.status \in {"active", "waiting"}

\* tasks.some(t => active || waiting || uploading), on the captured list
HasActiveDownload(captured) ==
    \E t \in captured : t.status \in {"active", "waiting", "uploading"}

\* The record both add handlers put in front of the list.
InitialTask(gid, placeholder, nowMs) ==
    [gid |-> gid, name |-> placeholder, size |-> 0, completed |-> 0,
     speed |-> 0, status |-> "active", progress |-> 0,
     errorMessage |-> NoErr, errorCode |-> NoErr,
     seeds |-> NaNV, peers |-> NaNV, infoHash |-> NoHash,
     timestamp |-> nowMs]

RemoveAt(s, k) == SubSeq(s, 1, k - 1) \o SubSeq(s, k + 1, Len(s))

\* First half of addMagnet / addTorrentFile: the busy check, then the request.
AddCall(kind) ==
    /\ IF HasActiveDownload(view)
       THEN /\ adds' = adds
            /\ last' = Last(kind, NoGid, "busy", << >>, << >>)
       ELSE /\ Len(adds) < MaxInFlight
            /\ adds' = Append(adds, [kind |-> kind, peerInserted |-> FALSE])
            /\ last' = Last(kind, NoGid, "sent", << >>, << >>)
    /\ UNCHANGED <<tasks, view, ignored, now, issued, userRemoved, net, srv>>

\* What the add request can come back with: a body with a gid, a body
\* without one, or a rejection (network error, timeout, 4xx/5xx).
AddGids == {G1, G2}

AddResponses ==
    { [res |-> "gid", gid |-> g] : g \in AddGids } \cup
    { [res |-> "nogid", gid |-> NoGid], [res |-> "fail", gid |-> NoGid] }

\* A response check that lets everything through.
HasGidAlways(resp) == TRUE

\* The await returned a body that passes `!res || !res.gid`.
HasGid(resp) == resp.res = "gid"

\* Second half: the response arrives.
AddReturn(kind, placeholder, k, resp) ==
    /\ Bump
    /\ k \in DOMAIN adds
    /\ adds[k].kind = kind
    /\ IF resp.res # "fail" /\ HasGid(resp)
       THEN /\ resp.gid \notin issued
            /\ Len(tasks) < MaxTasks
            /\ tasks' = <<InitialTask(resp.gid, placeholder, now)>> \o tasks
            /\ issued' = issued \cup {resp.gid}
            /\ adds' = [j \in DOMAIN RemoveAt(adds, k) |->
                            [RemoveAt(adds, k)[j] EXCEPT !.peerInserted = TRUE]]
            /\ last' = Last(kind, resp.gid,
                            IF adds[k].peerInserted THEN "inserted-second" ELSE "inserted",
                            << >>, << >>)
       ELSE /\ adds' = RemoveAt(adds, k)
            /\ last' = Last(kind, NoGid, resp.res, << >>, << >>)
            /\ UNCHANGED <<tasks, issued>>
    /\ UNCHANGED <<view, ignored, now, userRemoved, net, srv>>

AddMagnetCall == Bump /\ AddCall("addMagnet")
AddTorrentFileCall == Bump /\ AddCall("addTorrentFile")
AddMagnetReturn ==
    \E k \in DOMAIN adds, resp \in AddResponses :
        AddReturn("addMagnet", ResolvingName, k, resp)
AddTorrentFileReturn ==
    \E k \in DOMAIN adds, resp \in AddResponses :
        AddReturn("addTorrentFile", UploadingName, k, resp)

\* ------------------------------------------------------------ removeTask
\* A filter that keeps every task.
FilterOutNothing(ts, gid) == ts

FilterOut(ts, gid) == SelectSeq(ts, LAMBDA t : t.gid # gid)

\* What `await TorrentAPI.remove(gid)` can come back with.
RemoveResponses == {"ok", "fail"}

\* A removeTask without its try/catch.
RemoveOutcomeRethrow(resp) == IF resp = "fail" THEN "rejected" ELSE "resolved"

\* What the caller of removeTask gets: the catch block swallows a rejection.
RemoveOutcome(resp) == "resolved"

RemoveTask ==
    /\ Bump
    /\ \E v \in view, resp \in RemoveResponses :
        LET gid == v.gid IN
        /\ ignored' = ignored \cup {gid}
        /\ tasks' = FilterOut(tasks, gid)
        /\ userRemoved' = { u \in userRemoved : u.gid # gid } \cup
                { [gid |-> gid,
                   moving |-> \E j \in DOMAIN tasks :
                                 tasks[j].gid = gid /\ tasks[j].status = "uploading",
                   repeat |-> gid \in ignored /\ gid \notin Gids(tasks)] }
        /\ last' = Last("removeTask", gid, RemoveOutcome(resp), << >>, << >>)
        /\ UNCHANGED <<view, now, adds, issued, net, srv>>

\* ------------------------------------------------- pauseTask / resumeTask
PausedTasks(ts, gid) ==
    [j \in DOMAIN ts |-> IF ts[j].gid = gid
                         THEN [ts[j] EXCEPT !.status = "paused", !.speed = 0]
                         ELSE ts[j]]

ResumedTasks(ts, gid) ==
    [j \in DOMAIN ts |-> IF ts[j].gid = gid
                         THEN [ts[j] EXCEPT !.status = "waiting"]
                         ELSE ts[j]]

\* What `await TorrentAPI.pause(gid)` / resume(gid) can come back with, and
\* what the caller gets: the await is not inside a try.
ControlResponses == {"ok", "fail"}
ControlOutcome(resp) == IF resp = "fail" THEN "rejected" ELSE "resolved"

\* The pause button is rendered for a task shown as 'active'.
PauseTask ==
    \E v \in view, resp \in ControlResponses :
        /\ Bump
        /\ v.status = "active"
        /\ tasks' = PausedTasks(tasks, v.gid)
        /\ last' = Last("pauseTask", v.gid, ControlOutcome(resp), << >>, << >>)
        /\ UNCHANGED <<view, ignored, now, adds, issued, userRemoved, net, srv>>

\* The resume button is rendered for a task shown as 'paused'.
ResumeTask ==
    \E v \in view, resp \in ControlResponses :
        /\ Bump
        /\ v.status = "paused"
        /\ tasks' = ResumedTasks(tasks, v.gid)
        /\ last' = Last("resumeTask", v.gid, ControlOutcome(resp), << >>, << >>)
        /\ UNCHANGED <<view, ignored, now, adds, issued, userRemoved, net, srv>>

\* ---------------------------------------------------------- clearHistory
Unfinished(t) == t.status \in {"active", "waiting", "paused", "uploading"}

ClearHistory ==
    /\ Bump
    /\ view # {}
    /\ LET tasksToRemove == { t \in view : ~Unfinished(t) } IN
       /\ tasks' = SelectSeq(tasks, Unfinished)
       /\ ignored' = ignored \cup { t.gid : t \in tasksToRemove }
    /\ last' = Last("clearHistory", NoGid, "", << >>, << >>)
    /\ UNCHANGED <<view, now, adds, issued, userRemoved, net, srv>>

\* ------------------------------------------------------ render and clock
\* React re-renders AppProvider: the handlers now close over the new list.
Render ==
    /\ Bump
    /\ view # Captured(tasks)
    /\ view' = Captured(tasks)
    /\ last' = Last("idle", NoGid, "", << >>, << >>)
    /\ UNCHANGED <<tasks, ignored, now, adds, issued, userRemoved, net, srv>>

Tick ==
    /\ Bump
    /\ now < MaxClock * TickMs
    /\ now' = now + TickMs
    /\ last' = Last("idle", NoGid, "", << >>, << >>)
    /\ UNCHANGED <<tasks, view, ignored, adds, issued, userRemoved, net, srv>>

\* ------------------------------------------------------------- reconcile
\* What is kept of the merge's trace: per local task, what happened to it.
Digest(log) ==
    [k \in DOMAIN log |->
        [kind |-> log[k].kind, from |-> log[k].from.gid, to |-> log[k].to,
         by |-> IF log[k].kind = "transition"
                THEN Signals(MapGet(log[k].cands, log[k].to), log[k].from)
                ELSE {}]]

\* The gids of the tasks this cycle marked lost that carried the mark already.
Relost(log) ==
    { log[k].from.gid : k \in { j \in DOMAIN log :
                                  /\ log[j].kind = "lost"
                                  /\ log[j].from.status = "error"
                                  /\ NameStartsWith(log[j].from.name, LostTag) } }

\* One polling cycle: refreshStatus hands the /api/status body to
\* updateTasksFromBackend.
Reconcile ==
    /\ Bump
    /\ \E snap \in Snapshots :
        \E r \in { UpdateTasksFromBackend(tasks, ignored, snap, now) } :
        /\ Len(r.tasks) <= MaxTasks
        /\ tasks' = r.tasks
        /\ ignored' = r.ignored
        /\ userRemoved' = { u \in userRemoved : u.gid \in r.ignored }
        /\ last' = [op |-> "reconcile", gid |-> NoGid, outcome |-> "", snap |-> snap,
                     log |-> Digest(r.log), dropped |-> ignored \ r.ignored,
                     relost |-> Relost(r.log)]
        /\ UNCHANGED <<view, now, adds, issued, net, srv>>

Next ==
    \/ AddMagnetCall
    \/ AddTorrentFileCall
    \/ AddMagnetReturn
    \/ AddTorrentFileReturn
    \/ RemoveTask
    \/ PauseTask
    \/ ResumeTask
    \/ ClearHistory
    \/ Render
    \/ Tick
    \/ Reconcile

Spec == Init /\ [][Next]_vars

\* ------------------------------------------------- a session after reload
\* useState reads CL_TASKS: the list persisted by the previous session.
\* Here it holds one task that the previous session discovered at G2,
\* updated, and then forced to 'removed' while G2 was on its kill list; the
\* kill list itself is a ref and starts empty again.
RestoredTask ==
    IgnoredTask(UpdatedTask(NewTask(Entry(G2, "active", NameA, "h1", 2, 1, 1), 0),
                            Entry(G2, "active", NameA, "h1", 2, 1, 1), 0))

InitRestored ==
    /\ tasks = <<RestoredTask>>
    /\ view = Captured(tasks)
    /\ ignored = {}
    /\ now = 0
    /\ adds = << >>
    /\ issued = {}
    /\ userRemoved = {}
    /\ last = Last("init", NoGid, "", << >>, << >>)
    /\ steps = 0
    /\ net = NetInit
    /\ srv = SrvInit

SpecRestored == InitRestored /\ [][Next]_vars

\* ------------------------------------------------- connection handlers
MaxNetSteps == 7
MaxPolls == 2
MaxPollSnap == 1

Retries == 3

HealthResponses == {"ok", "fail", "401"}

\* A check that treats every failure alike.
IsUnauthorizedNever(resp) == FALSE

\* err.response && err.response.status === 401
IsUnauthorized(resp) == resp = "401"

\* setTimeout(resolve, 1000 * (i + 1))
BackoffMs(i) == 1000 * (i + 1)

\* A loop that gives up at its first failure.
ExhaustedAtOnce(i) == TRUE

\* The failed attempt i was the last one of `for (i = 0; i < retries; i++)`.
Exhausted(i) == ~(i + 1 < Retries)

\* The request interceptor: the header is set only when currentApiKey is
\* non-empty.
NoHeader == "none"
ApiKeyHeader(currentKey) == IF currentKey # NoKey THEN currentKey ELSE NoHeader

NetStep(op, health, poll, report) ==
    [net EXCEPT !.last = NetLast(op, health, poll, report), !.n = @ + 1]

\* A checkConnection without the interactionInProgress test.
StartCheckUnlocked(nt) ==
    [nt EXCEPT !.lock = TRUE, !.i = 0, !.closure = nt.isConnected,
               !.healthSent = 1, !.delays = << >>]

\* checkConnection up to its first `await TorrentAPI.checkHealth()`.
StartCheck(nt) ==
    IF nt.lock
    THEN nt
    ELSE [nt EXCEPT !.lock = TRUE, !.i = 0, !.closure = nt.isConnected,
                    !.healthSent = 1, !.delays = << >>]

\* handleSaveUrl of the header, then the effects on [apiUrl, apiKey] and on
\* [apiKey] of the next render. The first effect stops at `setApiUrl(apiUrl,
\* apiKey)`, a name the module does not bind; the other two pass the key to
\* the state setter `setApiKey` and call checkConnection when a URL is set.
SaveSettings ==
    \E url \in Urls, key \in Keys :
        /\ net.n < MaxNetSteps
        /\ <<url, key>> # <<net.apiUrl, net.apiKey>>
        /\ net' = LET saved == [NetStep("save", "", NoPoll, "")
                                   EXCEPT !.apiUrl = url, !.apiKey = key]
                  IN  IF key # net.apiKey /\ url # NoUrl
                      THEN StartCheck(saved)
                      ELSE saved
        /\ UNCHANGED <<tasks, view, ignored, now, adds, issued, userRemoved, last, steps, srv>>

\* The 'Disconnected' label of the header is clickable.
CheckConnection ==
    /\ net.n < MaxNetSteps
    /\ ~net.isConnected
    /\ ~net.lock
    /\ net' = StartCheck(NetStep("check", "", NoPoll, ""))
    /\ UNCHANGED <<tasks, view, ignored, now, adds, issued, userRemoved, last, steps, srv>>

\* The pending checkHealth of the running checkConnection settles.
HealthReturn ==
    \E resp \in HealthResponses :
        /\ net.n < MaxNetSteps
        /\ net.lock
        /\ net' =
            IF resp = "ok"
            THEN [NetStep("health", resp, NoPoll, "connected")
                    EXCEPT !.isConnected = TRUE, !.lock = FALSE]
            ELSE IF IsUnauthorized(resp)
            THEN [NetStep("health", resp, NoPoll, "auth")
                    EXCEPT !.isConnected = FALSE, !.lock = FALSE]
            ELSE IF ~Exhausted(net.i)
            THEN [NetStep("health", resp, NoPoll, "")
                    EXCEPT !.i = @ + 1,
                           !.delays = Append(@, BackoffMs(net.i)),
                           !.healthSent = @ + 1]
            ELSE IF ~net.closure
            THEN [NetStep("health", resp, NoPoll, "lost")
                    EXCEPT !.isConnected = FALSE, !.lock = FALSE]
            ELSE [NetStep("health", resp, NoPoll, "") EXCEPT !.lock = FALSE]
        /\ UNCHANGED <<tasks, view, ignored, now, adds, issued, userRemoved, last, steps, srv>>

\* disconnect
Disconnect ==
    /\ net.n < MaxNetSteps
    /\ net.isConnected
    /\ net' = [NetStep("disconnect", "", NoPoll, "")
                 EXCEPT !.apiUrl = NoUrl, !.apiKey = NoKey, !.isConnected = FALSE]
    /\ UNCHANGED <<tasks, view, ignored, now, adds, issued, userRemoved, last, steps, srv>>

\* The interval of the polling effect fires: refreshStatus sends its three
\* requests, whatever is still pending.
PollTick ==
    /\ net.n < MaxNetSteps
    /\ net.apiUrl # NoUrl
    /\ net.isConnected
    /\ Cardinality(net.polls) < MaxPolls
    /\ net' = [NetStep("tick", "", NoPoll, "")
                 EXCEPT !.polls = @ \cup {[id |-> net.nextId,
                                            key |-> ApiKeyHeader(net.currentApiKey)]},
                        !.nextId = @ + 1]
    /\ UNCHANGED <<tasks, view, ignored, now, adds, issued, userRemoved, last, steps, srv>>

\* How getStatus, getDriveInfo and getLogs of one refreshStatus settle. The
\* secret is the same for the three endpoints.
PollResponses ==
    { r \in [status : {"ok", "fail", "401"}, drive : {"ok", "fail", "401"},
             logs : {"ok", "fail", "401"}] :
        /\ (r.status = "401") <=> (r.drive = "401")
        /\ (r.status = "401") <=> (r.logs = "401") }

\* Promise.all rejects when getStatus or getDriveInfo does; getLogs has its
\* own catch.
PollRejected(r) == r.status # "ok" \/ r.drive # "ok"
PollUnauthorized(r) == IsUnauthorized(r.status) \/ IsUnauthorized(r.drive)

PollSnapshots == { snap \in Snapshots : Len(snap) <= MaxPollSnap }

DriveBody == [total |-> 2, free |-> 1, used |-> NaNV]
LogsBody == <<"l1">>

SafeDriveInfo(body) ==
    [total |-> ParseIntOr0(body.total), free |-> ParseIntOr0(body.free),
     used |-> ParseIntOr0(body.used)]

\* The three requests of one refreshStatus have settled: the rest of
\* refreshStatus, or the catch block of the interval callback.
PollReturn ==
    \E p \in net.polls, r \in PollResponses :
        /\ net.n < MaxNetSteps
        /\ IF PollRejected(r)
           THEN /\ net' = [NetStep("poll", "", r, IF PollUnauthorized(r) THEN "auth" ELSE "")
                             EXCEPT !.polls = @ \ {p},
                                    !.isConnected = IF PollUnauthorized(r) THEN FALSE ELSE @]
                /\ UNCHANGED <<tasks, ignored, userRemoved>>
           ELSE \E snap \in PollSnapshots :
                \E m \in { UpdateTasksFromBackend(tasks, ignored, snap, now) } :
                /\ Len(m.tasks) <= MaxTasks
                /\ tasks' = m.tasks
                /\ ignored' = m.ignored
                /\ userRemoved' = { u \in userRemoved : u.gid \in m.ignored }
                /\ net' = [NetStep("poll", "", r, "merged")
                             EXCEPT !.polls = @ \ {p},
                                    !.driveInfo = SafeDriveInfo(DriveBody),
                                    !.logs = IF r.logs = "ok" THEN LogsBody ELSE NoLogs,
                                    !.lastMerged = p.id]
        /\ UNCHANGED <<view, now, adds, issued, last, steps, srv>>

NextNet ==
    \/ SaveSettings
    \/ CheckConnection
    \/ HealthReturn
    \/ Disconnect
    \/ PollTick
    \/ PollReturn

SpecNet == Init /\ [][NextNet]_vars

\* ------------------------------------------------------------- backend
\* The backend is described in the specification, sections 4.3 and 4.4: the
\* Relocation Pipeline, the History table and the Status Aggregator.
MaxSrvSteps == 9
MaxMoveAttempts == 2

SrvStep(op) == [srv EXCEPT !.last = op, !.n = @ + 1]

\* Queue Controller: one task at a time enters the engine, which downloads
\* into staging.
SrvAdd ==
    \E g \in SrvGids :
        /\ srv.n < MaxSrvSteps
        /\ srv.engine[g] = "none"
        /\ g \notin srv.history \cup srv.removed
        /\ \A h \in SrvGids : srv.engine[h] \notin {"active", "waiting"}
        /\ srv' = [SrvStep("add") EXCEPT !.engine[g] = "active",
                                         !.staging = @ \cup {g}]
        /\ UNCHANGED <<tasks, view, ignored, now, adds, issued, userRemoved, last, steps, net>>

\* The engine reports the task done.
EngineCompletes ==
    \E g \in SrvGids :
        /\ srv.n < MaxSrvSteps
        /\ srv.engine[g] = "active"
        /\ srv' = [SrvStep("complete") EXCEPT !.engine[g] = "complete"]
        /\ UNCHANGED <<tasks, view, ignored, now, adds, issued, userRemoved, last, steps, net>>

\* Relocation Pipeline, step 1: a complete task not yet in History is marked
\* moving.
RelocateBegin ==
    \E g \in SrvGids :
        /\ srv.n < MaxSrvSteps
        /\ srv.engine[g] = "complete"
        /\ g \notin srv.history \cup srv.moving \cup srv.failed
        /\ srv' = [SrvStep("move") EXCEPT !.moving = @ \cup {g},
                                          !.attempts[g] = 0]
        /\ UNCHANGED <<tasks, view, ignored, now, adds, issued, userRemoved, last, steps, net>>

\* The name of the content a task produces: the two tasks produce output of
\* the same name.
OutputName(g) == <<"a.mkv">>

\* A destination that is the output's name, whatever durable storage holds.
DestNameSame(durable, name, stamp) == name

\* Relocation Pipeline, step 3: a timestamp suffix when the name is taken.
DestName(durable, name, stamp) ==
    IF \E e \in durable : e.name = name THEN name \o <<stamp>> ELSE name

\* Writing content under a name of durable storage replaces what the name
\* held.
Write(durable, dest, g) ==
    { e \in durable : e.name # dest } \cup { [name |-> dest, content |-> g] }

\* A relocation that leaves the staging copy behind.
RelocatedKeepStaging(s, g) ==
    [s EXCEPT !.durable = Write(@, DestName(@, OutputName(g), s.n), g),
              !.history = @ \cup {g},
              !.engine[g] = "none",
              !.moving = @ \ {g}]

\* Relocation Pipeline, steps 2 to 4: the content is moved to its destination,
\* the History Entry is written, the task is removed from the engine's
\* registry and the staging copy is deleted.
Relocated(s, g) ==
    [s EXCEPT !.durable = Write(@, DestName(@, OutputName(g), s.n), g),
              !.history = @ \cup {g},
              !.engine[g] = "none",
              !.staging = @ \ {g},
              !.moving = @ \ {g}]

RelocateDone ==
    \E g \in srv.moving :
        /\ srv.n < MaxSrvSteps
        /\ srv' = Relocated(SrvStep("saved"), g)
        /\ UNCHANGED <<tasks, view, ignored, now, adds, issued, userRemoved, last, steps, net>>

\* A pipeline that never gives up.
RetriesExhaustedNever(k) == FALSE

\* The retry budget of a relocation is used up after k failed moves.
RetriesExhausted(k) == k >= MaxMoveAttempts

\* Relocation Pipeline, step 5: the move fails with an I/O error; it is
\* retried, and after the last retry the task is in phase error. The staging
\* copy is left as it is.
RelocateFails ==
    \E g \in srv.moving :
        /\ srv.n < MaxSrvSteps
        /\ srv' = IF RetriesExhausted(srv.attempts[g] + 1)
                  THEN [SrvStep("failed") EXCEPT !.attempts[g] = @ + 1,
                                                 !.moving = @ \ {g},
                                                 !.failed = @ \cup {g}]
                  ELSE [SrvStep("failed") EXCEPT !.attempts[g] = @ + 1]
        /\ UNCHANGED <<tasks, view, ignored, now, adds, issued, userRemoved, last, steps, net>>

\* POST /api/control/remove: the engine drops the task and the backend
\* remembers the identifier as removed.
SrvRemove ==
    \E g \in SrvGids :
        /\ srv.n < MaxSrvSteps
        /\ srv.engine[g] # "none" \/ g \in srv.history
        /\ g \notin srv.removed
        /\ srv' = [SrvStep("remove") EXCEPT !.removed = @ \cup {g},
                                            !.moving = @ \ {g},
                                            !.engine[g] = "none"]
        /\ UNCHANGED <<tasks, view, ignored, now, adds, issued, userRemoved, last, steps, net>>

\* POST /api/cleanup: the history table is retained until explicit cleanup.
SrvCleanup ==
    /\ srv.n < MaxSrvSteps
    /\ srv' = [SrvStep("cleanup") EXCEPT !.engine = [g \in SrvGids |-> "none"],
                                         !.moving = {},
                                         !.history = {},
                                         !.removed = {},
                                         !.staging = {},
                                         !.failed = {},
                                         !.attempts = [g \in SrvGids |-> 0]]
    /\ UNCHANGED <<tasks, view, ignored, now, adds, issued, userRemoved, last, steps, net>>

\* An aggregator that serves the engine's listing alone.
AggregateEngineOnly(s) ==
    { [gid |-> g, status |-> s.engine[g]] : g \in { h \in SrvGids : s.engine[h] # "none" } }

\* Status Aggregator: the engine's live listing, the tasks being moved, the
\* History Entries the engine no longer lists as saved, without the
\* identifiers known as removed. The order of the snapshot is left out.
Aggregate(s) ==
    { [gid |-> g,
       status |-> IF g \in s.moving THEN "uploading"
                  ELSE IF g \in s.failed THEN "error"
                  ELSE IF s.engine[g] # "none" THEN s.engine[g]
                  ELSE "saved"] :
        g \in { h \in SrvGids \ s.removed :
                    h \in s.moving \/ s.engine[h] # "none" \/ h \in s.history } }

\* A status call that prunes the history table.
StatusEffectPruning(s) == [s EXCEPT !.served = Aggregate(s), !.history = {}]

\* What a status call leaves behind: the snapshot it served.
StatusEffect(s) == [s EXCEPT !.served = Aggregate(s)]

\* GET /api/status: read-only.
GetStatus ==
    /\ srv.n < MaxSrvSteps
    /\ srv' = [StatusEffect(srv) EXCEPT !.last = "status", !.n = @ + 1]
    /\ UNCHANGED <<tasks, view, ignored, now, adds, issued, userRemoved, last, steps, net>>

NextSrv ==
    \/ SrvAdd
    \/ EngineCompletes
    \/ RelocateBegin
    \/ RelocateDone
    \/ RelocateFails
    \/ SrvRemove
    \/ SrvCleanup
    \/ GetStatus

SpecSrv == Init /\ [][NextSrv]_vars



\* ================================================================ claims
AddOps == {"addMagnet", "addTorrentFile"}
Placeholders == {ResolvingName, UploadingName}
SnapGids(snap) == { snap[k].gid : k \in DOMAIN snap }
SnapEntry(snap, g) == snap[CHOOSE k \in DOMAIN snap : snap[k].gid = g]

\* C1: the list holds at most one task whose phase is resolving, active or
\* waiting (resolving is status 'active' under a placeholder name).
C1_AtMostOneBusy ==
    Cardinality({ i \in DOMAIN tasks : tasks[i].status \in {"active", "waiting"} }) <= 1

\* C2: of the add calls that are in flight together, at most one passes the
\* busy check and inserts a task.
C2_AddsAtomic ==
    ~(last.op \in AddOps /\ last.outcome = "inserted-second")

\* C3: an add call made while a non-suppressed task of the list is active or
\* waiting is rejected: no request is sent and the list is unchanged.
BusyTracked ==
    \E i \in DOMAIN tasks :
        tasks[i].status \in {"active", "waiting"} /\ tasks[i].gid \notin ignored

C3_BusyRejected ==
    [][ (BusyTracked /\ last'.op \in AddOps /\ last'.outcome \in {"busy", "sent"})
            => (last'.outcome = "busy" /\ adds' = adds /\ tasks' = tasks) ]_vars

\* C4: after a reconcile cycle no task of the list carries a gid that the
\* user removed and that is still on the kill list.
C4_SuppressedStayHidden ==
    last.op = "reconcile" =>
        \A u \in userRemoved : u.gid \notin Gids(tasks)

\* C5: a gid removed by the user while its task was being relocated is not
\* shown again when a later snapshot reports it as saved, as long as it is
\* on the kill list.
C5_RemovedWhileMovingStaysHidden ==
    last.op = "reconcile" =>
        \A u \in userRemoved :
            (u.moving /\ u.gid \in SnapGids(last.snap)
                      /\ SnapEntry(last.snap, u.gid).status = "saved")
                => u.gid \notin Gids(tasks)

\* C6 (scenario 1): the list holds the task just inserted by addMagnet under
\* g1; the snapshot lacks g1 and holds an active entry g2 with the
\* fingerprint of the added content.  After the cycle the list holds one
\* task for that download: gid g2, status active, none left at g1.
FreshMagnet(t) == t.gid \in issued /\ t = InitialTask(t.gid, ResolvingName, t.timestamp)

C6_Scenario1 ==
    [][ last'.op = "reconcile" =>
          \A i \in DOMAIN tasks : \A k \in DOMAIN last'.snap :
            LET g1 == tasks[i].gid
                e == last'.snap[k]
            IN  ( /\ FreshMagnet(tasks[i])
                  /\ g1 \notin ignored
                  /\ g1 \notin SnapGids(last'.snap)
                  /\ e.infoHash = ContentHash
                  /\ e.status = "active" )
                => /\ g1 \notin Gids(tasks')
                   /\ Cardinality({ j \in DOMAIN tasks' : tasks'[j].gid = e.gid }) = 1
                   /\ \A j \in DOMAIN tasks' :
                        tasks'[j].gid = e.gid => tasks'[j].status = "active" ]_vars

\* ---- the merge seen from outside: list before, snapshot, list after ----
\* New tasks are unshifted in front, so the task at position i before the
\* cycle sits at position i + (growth of the list) after it.
PostOf(i) == tasks'[i + (Len(tasks') - Len(tasks))]
Cycle == last'.op = "reconcile"
CycleLog == UpdateTasksFromBackend(tasks, ignored, last'.snap, now).log

ByPrefix(e, t) == StartsWith(e.gid, t.gid)
ByHash(e, t) == e.infoHash # NoHash /\ e.infoHash = t.infoHash
ByName(e, t) == e.fname # NoName /\ e.fname = t.name

\* Rank of the strongest rule by which entry e matches local task t:
\* 1 explicit reference (no such field in an /api/status entry),
\* 2 fingerprint, 3 gid prefix, 4 display name, 5 no rule.
Rank(e, t) ==
    IF ByHash(e, t) THEN 2
    ELSE IF ByPrefix(e, t) THEN 3
    ELSE IF ByName(e, t) THEN 4
    ELSE 5

\* C7: the entry adopted for a vanished task matches it by the strongest
\* rule among the entries still unclaimed, whatever the snapshot's order.
C7_StrictPriority ==
    [][ Cycle =>
          \A k \in DOMAIN CycleLog :
            CycleLog[k].kind = "transition" =>
              \A c \in DOMAIN CycleLog[k].cands :
                Rank(MapGet(CycleLog[k].cands, CycleLog[k].to), CycleLog[k].from)
                    <= Rank(CycleLog[k].cands[c], CycleLog[k].from) ]_vars

\* C8 as stated: a task adopts an entry that matches it by name alone only
\* while the task's own name is still a placeholder.
C8_NameOnlyForPlaceholders ==
    [][ Cycle =>
          \A i \in DOMAIN tasks :
            (PostOf(i).gid # tasks[i].gid /\ PostOf(i).gid \in SnapGids(last'.snap)) =>
              LET e == SnapEntry(last'.snap, PostOf(i).gid) IN
              (~ByPrefix(e, tasks[i]) /\ ~ByHash(e, tasks[i]))
                  => tasks[i].name \in Placeholders ]_vars

\* C8 amended: a task adopts an entry that matches it neither by gid prefix
\* nor by fingerprint only if its name is not a placeholder and equals the
\* entry's file name.
C8_NameOnlyForResolvedNames ==
    [][ Cycle =>
          \A i \in DOMAIN tasks :
            (PostOf(i).gid # tasks[i].gid /\ PostOf(i).gid \in SnapGids(last'.snap)) =>
              LET e == SnapEntry(last'.snap, PostOf(i).gid) IN
              (~ByPrefix(e, tasks[i]) /\ ~ByHash(e, tasks[i]))
                  => (tasks[i].name \notin Placeholders /\ e.fname = tasks[i].name) ]_vars

\* A cycle in which a task was re-pointed on the strength of its name alone.
C8_Witness ==
    /\ last.op = "reconcile"
    /\ \E k \in DOMAIN last.log :
         last.log[k].kind = "transition" /\ last.log[k].by = {"name"}

\* C9: a task's gid changes in a cycle only if the old gid is absent from
\* the snapshot and the new gid is an entry matching the task by prefix,
\* fingerprint or name; a task that no entry matches keeps its gid.
C9_NoGuessedLink ==
    [][ Cycle =>
          \A i \in DOMAIN tasks :
            LET t == tasks[i]
                snap == last'.snap
            IN  /\ PostOf(i).gid # t.gid =>
                     /\ t.gid \notin SnapGids(snap)
                     /\ \E k \in DOMAIN snap :
                          /\ snap[k].gid = PostOf(i).gid
                          /\ Rank(snap[k], t) < 5
                /\ (\A k \in DOMAIN snap : Rank(snap[k], t) = 5) => PostOf(i).gid = t.gid ]_vars

\* C10: in one cycle no gid of the snapshot is claimed (updated in place or
\* adopted) by two local tasks.
Claims(log) == { k \in DOMAIN log : log[k].kind \in {"update", "transition"} }

C10_ClaimedOnce ==
    last.op = "reconcile" =>
        \A a, b \in Claims(last.log) : a # b => last.log[a].to # last.log[b].to

\* A cycle in which two local tasks each claimed an entry, one by adoption.
C10_Witness ==
    /\ last.op = "reconcile"
    /\ \E a, b \in Claims(last.log) :
         a # b /\ last.log[a].kind = "transition"

\* The task at position i took another gid in the cycle (only an adoption
\* writes the gid field).
Adopted(i) == PostOf(i).gid # tasks[i].gid

\* C11 as stated: a task that adopts a new gid keeps the time stamp it had
\* before the cycle.
C11_TimestampPreserved ==
    [][ Cycle =>
          \A i \in DOMAIN tasks :
            Adopted(i) => PostOf(i).timestamp = tasks[i].timestamp ]_vars

\* C11 amended: a task that adopts a new gid is stamped with the time of the
\* cycle (timestamp is the time of the last update, not of creation).
C11_TimestampRefreshed ==
    [][ Cycle =>
          \A i \in DOMAIN tasks :
            Adopted(i) => PostOf(i).timestamp = now ]_vars

\* A cycle run after the clock has advanced in which a task adopted a gid.
C11_Witness ==
    /\ last.op = "reconcile"
    /\ now > 0
    /\ \E k \in DOMAIN last.log :
         /\ last.log[k].kind = "transition"
         /\ \E j \in DOMAIN tasks :
              tasks[j].gid = last.log[k].to /\ tasks[j].timestamp = now

\* C12: across an adoption the completed-byte count shown for the task does
\* not decrease.
C12_CompletedMonotone ==
    [][ Cycle =>
          \A i \in DOMAIN tasks :
            Adopted(i) => PostOf(i).completed >= tasks[i].completed ]_vars

C14_DroppedOnlyWhenGone ==
    [][ \A g \in ignored \ ignored' :
          Cycle /\ g \notin SnapGids(last'.snap) ]_vars

\* A cycle that dropped a gid from the kill list.
C14_Witness ==
    /\ last.op = "reconcile"
    /\ last.dropped # {}

\* C15: right after removeTask(g), whatever the remove request comes back
\* with, g is on the kill list, no task of the list has gid g, and the other
\* tasks are as before, in the same order.
C15_RemoveOptimistic ==
    [][ last'.op = "removeTask" =>
          /\ last'.gid \in ignored'
          /\ ignored' = ignored \cup {last'.gid}
          /\ last'.gid \notin Gids(tasks')
          /\ tasks' = SelectSeq(tasks, LAMBDA t : t.gid # last'.gid) ]_vars

\* A removal that took a task out of a list of two.
C15_Witness ==
    /\ last.op = "removeTask"
    /\ last.gid \in ignored
    /\ Len(tasks) = 1
    /\ \E v \in view : v.gid = last.gid
    /\ \E u \in userRemoved : u.gid = last.gid /\ ~u.repeat

\* C16: removeTask(g) for a gid that is already on the kill list and in no
\* task of the list changes neither, and resolves for the caller even when
\* the backend rejects the request.
C16_RemoveIdempotent ==
    [][ (last'.op = "removeTask" /\ last'.gid \in ignored /\ last'.gid \notin Gids(tasks)) =>
          /\ tasks' = tasks
          /\ ignored' = ignored
          /\ last'.outcome = "resolved" ]_vars

\* A removeTask repeated for a gid removed before.
C16_Witness ==
    /\ last.op = "removeTask"
    /\ \E u \in userRemoved : u.gid = last.gid /\ u.repeat

\* No entry of the snapshot matches task t by any lineage rule.
NoMatch(t, snap) == \A k \in DOMAIN snap : Rank(snap[k], t) = 5

\* C17: a task that is not on the kill list and whose gid is in the
\* snapshot shows, after the cycle, the size, completed bytes, speed, status,
\* error code and message, seeds and peers of the entry with its gid
\* (numbers as parseInt reads them, 0 when missing).
C17_FieldsCopied ==
    [][ Cycle =>
          \A i \in DOMAIN tasks :
            (tasks[i].gid \notin ignored /\ tasks[i].gid \in SnapGids(last'.snap)) =>
              LET e == SnapEntry(last'.snap, tasks[i].gid)
                  p == PostOf(i)
              IN  /\ p.size = ParseIntOr0(e.totalLength)
                  /\ p.completed = ParseIntOr0(e.completedLength)
                  /\ p.speed = ParseIntOr0(e.downloadSpeed)
                  /\ p.status = e.status
                  /\ p.errorCode = e.errorCode
                  /\ p.errorMessage = e.errorMessage
                  /\ p.seeds = ParseIntOr0(e.numSeeders)
                  /\ p.peers = ParseIntOr0(e.connections) ]_vars

\* C18: an active task that is not on the kill list, is absent from the
\* snapshot, is matched by no entry and was stamped less than 60 s ago is
\* the same record after the cycle.
C18_GraceLeavesUnchanged ==
    [][ Cycle =>
          \A i \in DOMAIN tasks :
            ( /\ tasks[i].gid \notin ignored
              /\ tasks[i].status = "active"
              /\ tasks[i].gid \notin SnapGids(last'.snap)
              /\ NoMatch(tasks[i], last'.snap)
              /\ now - tasks[i].timestamp < GraceMs )
            => PostOf(i) = tasks[i] ]_vars

\* A cycle that kept a missing task under the grace rule.
C18_Witness ==
    /\ last.op = "reconcile"
    /\ \E k \in DOMAIN last.log :
         /\ last.log[k].kind = "kept"
         /\ last.log[k].from \notin SnapGids(last.snap)
         /\ \E j \in DOMAIN tasks :
              tasks[j].gid = last.log[k].from /\ tasks[j].status = "active"

\* C19 as stated: a cycle never shortens the list, and a task that is absent
\* from the snapshot, matched by no entry and stamped 60 s ago or more ends
\* the cycle with status error and a name that starts with '[Lost]'.
C19_LostNotDeleted ==
    [][ Cycle =>
          /\ Len(tasks') >= Len(tasks)
          /\ \A i \in DOMAIN tasks :
               ( /\ tasks[i].gid \notin SnapGids(last'.snap)
                 /\ NoMatch(tasks[i], last'.snap)
                 /\ now - tasks[i].timestamp >= GraceMs )
               => /\ PostOf(i).status = "error"
                  /\ NameStartsWith(PostOf(i).name, LostTag) ]_vars

\* C19 amended: as C19, for the tasks whose status is not 'removed'; a task
\* with status 'removed' in that situation is the same record after the cycle.
C19_LostUnlessRemoved ==
    [][ Cycle =>
          /\ Len(tasks') >= Len(tasks)
          /\ \A i \in DOMAIN tasks :
               ( /\ tasks[i].gid \notin SnapGids(last'.snap)
                 /\ NoMatch(tasks[i], last'.snap)
                 /\ now - tasks[i].timestamp >= GraceMs )
               => IF tasks[i].status = "removed"
                  THEN PostOf(i) = tasks[i]
                  ELSE /\ PostOf(i).status = "error"
                       /\ NameStartsWith(PostOf(i).name, LostTag)
                       /\ PostOf(i).gid = tasks[i].gid ]_vars

\* A cycle run after the grace period that marked a missing task as lost.
C19_Witness ==
    /\ last.op = "reconcile"
    /\ now >= GraceMs
    /\ \E k \in DOMAIN last.log :
         /\ last.log[k].kind = "lost"
         /\ \E j \in DOMAIN tasks :
              /\ tasks[j].gid = last.log[k].from
              /\ tasks[j].status = "error"
              /\ NameStartsWith(tasks[j].name, LostTag)

\* C20: after a cycle, an entry of the snapshot that no task of the old list
\* holds is, when its gid is not on the kill list, the gid and status of
\* exactly one of the tasks put in front of the list; when its gid is on the
\* kill list, of none of them.
C20_UnclaimedDiscovered ==
    [][ Cycle =>
          LET growth == Len(tasks') - Len(tasks)
              held == { PostOf(i).gid : i \in DOMAIN tasks }
          IN  \A k \in DOMAIN last'.snap :
                LET e == last'.snap[k]
                    fresh == { j \in 1..growth : tasks'[j].gid = e.gid }
                IN  e.gid \notin held =>
                      IF e.gid \in ignored'
                      THEN fresh = {}
                      ELSE /\ Cardinality(fresh) = 1
                           /\ \A j \in fresh : tasks'[j].status = e.status ]_vars

\* A cycle that discovered one entry and passed over a suppressed one.
C20_Witness ==
    /\ last.op = "reconcile"
    /\ Len(tasks) > Len(last.log)
    /\ \E k \in DOMAIN last.snap :
         last.snap[k].gid \in ignored /\ last.snap[k].gid \notin Gids(tasks)

\* C23: a pause or resume whose request fails leaves the list as it was
\* before the command.
C23_FailedControlNoChange ==
    [][ (last'.op \in {"pauseTask", "resumeTask"} /\ last'.outcome = "rejected")
            => tasks' = tasks ]_vars

\* C24: an add whose request fails, or whose response has no gid, leaves the
\* list as it was.
C24_FailedAddNoInsert ==
    [][ /\ (last'.op \in AddOps /\ last'.outcome \in {"nogid", "fail"})
            => (tasks' = tasks /\ issued' = issued)
        /\ (last'.op \in AddOps /\ tasks' # tasks)
            => (Head(tasks').gid \in AddGids /\ last'.outcome \notin {"nogid", "fail"})
      ]_vars

\* An add that came back without a gid while the list held a task.
C24_Witness ==
    /\ last.op \in AddOps
    /\ last.outcome \in {"nogid", "fail"}
    /\ tasks # << >>

\* The handlers see the list as it is, and its only unfinished tasks are
\* being relocated.
OnlyUploading ==
    /\ view = Captured(tasks)
    /\ \E v \in view : v.status = "uploading"
    /\ \A v \in view : v.status \notin {"active", "waiting"}

\* C28 as stated: an add made while the only unfinished tasks are being
\* relocated is accepted and its request sent.
C28_UploadingNotBusy ==
    [][ (OnlyUploading /\ last'.op \in AddOps /\ last'.outcome \in {"busy", "sent"})
            => last'.outcome = "sent" ]_vars

\* C28 amended: an add made while a task of the captured list is being
\* relocated is rejected as busy; no request is sent, the list is unchanged.
C28_UploadingIsBusy ==
    [][ ((\E v \in view : v.status = "uploading")
            /\ last'.op \in AddOps /\ last'.outcome \in {"busy", "sent"})
            => (last'.outcome = "busy" /\ adds' = adds /\ tasks' = tasks) ]_vars

\* An add rejected while the only unfinished task was being relocated.
C28_Witness ==
    /\ last.op \in AddOps
    /\ last.outcome = "busy"
    /\ view = Captured(tasks)
    /\ \E v \in view : v.status = "uploading"
    /\ \A v \in view : v.status \notin {"active", "waiting"}

\* A step of the connection handlers.
NetActed == net'.n # net.n

\* C21: reconcile cycles do not overlap: at most one poll is outstanding, and
\* the snapshots are merged in the order in which they were requested.
C21_NoOverlap ==
    [][ /\ Cardinality(net'.polls) <= 1
        /\ net'.lastMerged >= net.lastMerged ]_vars

\* C22: a poll in which one of the three requests fails leaves the task list,
\* the kill list, drive info and logs as they were.
C22_FailedPollNoChange ==
    [][ (NetActed /\ net'.last.op = "poll"
            /\ \E f \in {"status", "drive", "logs"} : net'.last.poll[f] # "ok")
            => /\ tasks' = tasks
               /\ ignored' = ignored
               /\ net'.driveInfo = net.driveInfo
               /\ net'.logs = net.logs ]_vars

\* C25: a 401 from the health check ends checkConnection at once, disconnected
\* and with no further health request; a 401 from a poll disconnects; polls
\* are started only while connected.
C25_AuthFailureImmediate ==
    [][ /\ (NetActed /\ net'.last.op = "health" /\ net'.last.health = "401")
            => (~net'.isConnected /\ ~net'.lock
                /\ net'.healthSent = net.healthSent /\ net'.last.report = "auth")
        /\ (NetActed /\ net'.last.op = "poll" /\ net'.last.poll.status = "401")
            => ~net'.isConnected
        /\ (NetActed /\ net'.last.op = "tick") => net.isConnected ]_vars

\* A connected client whose health check came back 401 at the second attempt.
C25_Witness ==
    /\ net.last.op = "health"
    /\ net.last.health = "401"
    /\ net.healthSent = 2
    /\ net.closure
    /\ ~net.isConnected

\* C26 (as a property of finite runs): when checkConnection has used up its
\* attempts on connectivity failures, the client is disconnected, whether or
\* not it was connected when the check began.
C26_OutageReported ==
    [][ (NetActed /\ net'.last.op = "health" /\ net'.last.health = "fail" /\ ~net'.lock)
            => ~net'.isConnected ]_vars

\* C27: checkConnection sends at most 3 health requests, waits longer before
\* each retry, and reports the connection lost only when the third request
\* failed; a failed earlier attempt or a failed poll leaves isConnected as it
\* is.
C27_BoundedRetries ==
    [][ /\ net'.healthSent <= 3
        /\ \A j, k \in DOMAIN net'.delays : j < k => net'.delays[j] < net'.delays[k]
        /\ (NetActed /\ net'.last.op = "health" /\ net'.last.health = "fail")
            => IF net.healthSent < 3
               THEN /\ net'.isConnected = net.isConnected
                    /\ net'.lock
                    /\ net'.healthSent = net.healthSent + 1
                    /\ Len(net'.delays) = Len(net.delays) + 1
                    /\ net'.last.report = ""
               ELSE ~net'.lock
        /\ (NetActed /\ net'.last.report = "lost") => net.healthSent = 3
        /\ (NetActed /\ net'.last.op = "poll" /\ net'.last.poll.status # "401")
            => net'.isConnected = net.isConnected ]_vars

\* A check that reported the connection lost after three failed requests.
C27_Witness ==
    /\ net.last.report = "lost"
    /\ net.healthSent = 3
    /\ Len(net.delays) = 2
    /\ ~net.isConnected

\* C29: with a non-empty key saved, every poll the client sends carries the
\* x-api-key header with that key.
C29_RequestsCarryKey ==
    [][ (NetActed /\ net'.last.op = "tick" /\ net.apiKey # NoKey)
            => \A p \in net'.polls \ net.polls : p.key = net.apiKey ]_vars

\* A snapshot has just been served.
Served == srv'.n # srv.n /\ srv'.last = "status"

C35_UniqueGids ==
    \A i, j \in DOMAIN tasks : i # j => tasks[i].gid # tasks[j].gid

\* C36: a cycle never re-points a vanished task to an entry whose gid is on
\* the kill list.
C36_NoSuppressedAdoption ==
    [][ Cycle =>
          \A k \in DOMAIN last'.log :
            last'.log[k].kind = "transition" => last'.log[k].to \notin ignored' ]_vars

\* C38: after clearHistory every task left is unfinished and not on the kill
\* list, and every task it deleted is on the kill list.
C38_ClearsExactlyFinished ==
    [][ last'.op = "clearHistory" =>
          /\ \A j \in DOMAIN tasks' :
                Unfinished(tasks'[j]) /\ tasks'[j].gid \notin ignored'
          /\ \A i \in DOMAIN tasks :
                ~Unfinished(tasks[i]) => tasks[i].gid \in ignored' ]_vars

\* C39: a cycle that marks a missing task lost changes only its status (to
\* error), its name (one '[Lost]' in front) and its speed (to 0); a task that
\* carries the mark already is the same record afterwards; a task with
\* status removed is not marked.
C39_LostIdempotent ==
    [][ Cycle =>
          \A i \in DOMAIN tasks :
            /\ last'.log[i].kind = "lost" =>
                 /\ tasks[i].status # "removed"
                 /\ PostOf(i) = [tasks[i] EXCEPT !.status = "error", !.speed = 0,
                                                 !.name = PostOf(i).name]
                 /\ NameStartsWith(PostOf(i).name, LostTag)
                 /\ Cardinality({ j \in DOMAIN PostOf(i).name :
                                    PostOf(i).name[j] = LostTag }) = 1
                 /\ ( /\ tasks[i].status = "error"
                      /\ tasks[i].speed = 0
                      /\ NameStartsWith(tasks[i].name, LostTag) )
                    => PostOf(i) = tasks[i]
            /\ tasks[i].status = "removed" => last'.log[i].kind # "lost" ]_vars

\* A cycle that marked lost a task that an earlier cycle had marked.
C39_Witness ==
    /\ last.op = "reconcile"
    /\ \E g \in last.relost :
         \E j \in DOMAIN tasks :
            /\ tasks[j].gid = g
            /\ tasks[j].status = "error"
            /\ Cardinality({ k \in DOMAIN tasks[j].name : tasks[j].name[k] = LostTag }) = 1

\* C37: a checkConnection called while another one runs sends no health
\* request and leaves the running one as it is; a check starts only when the
\* lock is free; the lock is released when the check ends (success, 401, third
\* failure).
C37_CheckExclusive ==
    [][ NetActed =>
          /\ (net.lock /\ net'.last.op \in {"save", "check"})
                => /\ net'.lock
                   /\ net'.healthSent = net.healthSent
                   /\ net'.i = net.i
                   /\ net'.closure = net.closure
                   /\ net'.delays = net.delays
          /\ (net'.last.op = "health"
                /\ (net'.last.health \in {"ok", "401"} \/ net.healthSent = 3))
                => ~net'.lock
          /\ (~net.lock /\ net'.lock) => net'.healthSent = 1 ]_vars

\* The settings were saved with a new key while a check was waiting for its
\* second health request.
C37_Witness ==
    /\ net.last.op = "save"
    /\ net.lock
    /\ net.healthSent = 2

\* A step of the backend.
SrvActed == srv'.n # srv.n

\* C31: a successful relocation leaves the content in durable storage, a
\* History Entry, and no reference to the task in staging or in the engine's
\* registry; a failed move leaves staging, durable storage and History as they
\* were, with the content still staged and the task still complete in the
\* engine.
C31_RelocationAtomic ==
    [][ SrvActed =>
          /\ srv'.last = "saved" =>
                /\ Cardinality(srv'.history \ srv.history) = 1
                /\ \A g \in srv'.history \ srv.history :
                      /\ \E e \in srv'.durable : e.content = g
                      /\ g \notin srv'.staging
                      /\ g \notin srv'.moving
                      /\ srv'.engine[g] = "none"
          /\ srv'.last = "failed" =>
                /\ srv'.staging = srv.staging
                /\ srv'.durable = srv.durable
                /\ srv'.history = srv.history
                /\ \A g \in SrvGids :
                      srv'.attempts[g] > srv.attempts[g] =>
                          /\ g \in srv'.staging
                          /\ g \notin srv'.history
                          /\ srv'.engine[g] = "complete" ]_vars

\* A relocation that succeeded after a failed move.
C31_Witness ==
    /\ srv.last = "saved"
    /\ \E g \in srv.history :
          /\ srv.attempts[g] >= 1
          /\ g \notin srv.staging
          /\ \E e \in srv.durable : e.content = g

\* C32: a successful relocation adds one entry to durable storage and keeps
\* every entry that was there; no two entries have the same name.
C32_NoOverwrite ==
    [][ SrvActed =>
          /\ srv'.last = "saved" =>
                /\ srv.durable \subseteq srv'.durable
                /\ Cardinality(srv'.durable) = Cardinality(srv.durable) + 1
          /\ \A e, f \in srv'.durable : e.name = f.name => e = f ]_vars

\* Two tasks with output of the same name have been relocated: the second
\* entry has the suffix.
C32_Witness ==
    \E e, f \in srv.durable :
        /\ e.content # f.content
        /\ e.name = OutputName(e.content)
        /\ Len(f.name) = Len(OutputName(f.content)) + 1

\* C33: a relocation fails at most MaxMoveAttempts times; the last failure
\* puts the task in phase error, out of the pipeline, with its content still
\* staged; a task in phase error is not moved again; a failure never touches
\* staging.
C33_BoundedRetries ==
    [][ SrvActed =>
          /\ \A g \in SrvGids : srv'.attempts[g] <= MaxMoveAttempts
          /\ srv'.failed \cap srv'.moving = {}
          /\ srv'.last = "failed" =>
                /\ srv'.staging = srv.staging
                /\ \A g \in SrvGids :
                      (srv'.attempts[g] > srv.attempts[g]
                          /\ srv'.attempts[g] = MaxMoveAttempts)
                        => /\ g \in srv'.failed
                           /\ g \in srv'.staging
                           /\ [gid |-> g, status |-> "error"] \in Aggregate(srv') ]_vars

\* A relocation that used up its attempts.
C33_Witness ==
    /\ srv.last = "failed"
    /\ \E g \in srv.failed :
          /\ srv.attempts[g] = MaxMoveAttempts
          /\ g \in srv.staging

\* C34: a status call changes nothing of engine, storage and History.
C34_StatusReadOnly ==
    [][ Served =>
          \A f \in {"engine", "moving", "history", "removed", "staging",
                    "durable", "attempts", "failed"} : srv'[f] = srv[f] ]_vars

\* A snapshot served while a History Entry and staged content exist.
C34_Witness ==
    /\ srv.last = "status"
    /\ srv.history # {}
    /\ srv.staging # {}
    /\ srv.served # {}

====
